---- MODULE Spec2Model ----
(***************************************************************************)
(* The proof-of-authority ledger of src/blockchain.py: Block (hash, sign,  *)
(* verify, to_dict) and Blockchain (genesis, new_transaction, new_block,   *)
(* is_valid, save_chain).                                                  *)
(*                                                                         *)
(* SHA-256 is modelled as an injective constructor over the hashed fields  *)
(* (no collisions), an ECDSA signature as the pair (signing key, digest).  *)
(* Python's None is the empty tuple.  datetime.now() at one-second         *)
(* resolution is the counter now, which never runs backwards.              *)
(***************************************************************************)
EXTENDS Integers, Sequences, FiniteSets, TLC

\* ------------------------------------------------------------------ bounds
MaxChain   == 3    \* blocks in the chain, genesis included
MaxTx      == 2    \* transactions queued over the life of the chain
MaxTime    == 1    \* last value of the clock
MaxTamper  == 2    \* out-of-band modifications of block objects
MaxVotes   == 3    \* rows of the votes table

\* ----------------------------------------------------------------- values
None == << >>

\* hex private keys and the public key each one derives (wallet.py)
HostKey     == "sk_host"
OtherKey    == "sk_other"
PrivateKeys == {HostKey, OtherKey}

PublicOf(sk) == IF sk = HostKey THEN "pk_host" ELSE "pk_other"

Senders    == {"v1", "v2"}
Candidates == {"A"}
Proofs     == {0, 1}

GenesisTransactions == << [message |-> "Genesis Block - Blockchain initialized"] >>
GenesisPreviousHash == << "0" >>

\* what self.filename can hold: the complete JSON list last written
\* ("written", its records are the variable file), nothing ("absent"), a
\* proper prefix of a JSON list, which no JSON parser accepts ("truncated"),
\* or JSON that is not a list of block records, such as null or [1]
\* ("malformed")
FileStates == {"written", "absent", "truncated", "malformed"}

\* registered e-mail addresses (already trimmed and lower-cased) and the
\* browser sessions that run app.py
Emails     == {"ann@x.org", "bob@x.org"}
SessionIds == {"s1", "s2"}

Transaction(sender, recipient, vote, t) ==
    [sender |-> sender, recipient |-> recipient, vote |-> vote, timestamp |-> t]

\* ------------------------------------------------------------------ state
VARIABLES
    chain,                 \* Blockchain.chain: sequence of Block objects
    current_transactions,  \* Blockchain.current_transactions
    file,                  \* content of self.filename: sequence of block dicts
    host_public_key,       \* Blockchain.host_public_key
    host_private_key,      \* Blockchain.host_private_key
    now,                   \* the wall clock, in seconds
    tampers,               \* number of out-of-band modifications so far
    last,                  \* the last call made: its name, arguments and result
    file_state,            \* what self.filename holds: see FileStates
    running,               \* a Blockchain object exists in a live process
    voters,                \* voters table: email -> row
    votes,                 \* votes table: sequence of rows
    election_state,        \* the single row of election_state
    sessions,              \* per browser session: where its script run stands
    peer,                  \* a second Blockchain object on the same file
    opened,                \* history: the phases the host has opened so far
    db                     \* database.py: its voters table and the add_voter
                           \* calls in progress

\* the tables of voters.db and the sessions of app.py
appvars == << voters, votes, election_state, sessions >>

vars == << chain, current_transactions, file, host_public_key,
           host_private_key, now, tampers, last, file_state, running,
           appvars, peer, opened, db >>

\* ------------------------------------------------------------------ Block
\* Block.calculate_hash: SHA-256 of the key-sorted JSON of the six fields
calculate_hash(b) ==
    << "sha256", b.host_public_key, b.index, b.previous_hash, b.proof,
       b.timestamp, b.transactions >>

\* A signature made with the library's real signing call over a digest.
Signature(sk, digest) == << "sig", sk, digest >>

\* Block.sign_block with a non-empty key (an empty one raises ValueError at
\* line 41; Init configures a non-empty key).
\* ecdsa.SigningKey has no method sign_with_hash: line 49 raises
\* AttributeError for a well-formed key (and from_string raises for a
\* malformed one), the except clause of line 51 swallows it and the method
\* returns None.
sign_block(hash, private_key) == None

\* Block.verify_signature: any exception (bytes.fromhex(None) included) and
\* BadSignatureError give False.
verify_signature(b) ==
    /\ b.host_signature # None
    /\ Len(b.host_signature) = 3
    /\ PublicOf(b.host_signature[2]) = b.host_public_key
    /\ b.host_signature[3] = calculate_hash(b)

\* Block.__init__ with a non-empty private key
Block(index, timestamp, previous_hash, transactions, pub, priv, proof) ==
    LET fields == [index |-> index, timestamp |-> timestamp,
                   transactions |-> transactions,
                   previous_hash |-> previous_hash, proof |-> proof,
                   host_public_key |-> pub]
        h == calculate_hash(fields)
    IN  [index |-> index, timestamp |-> timestamp,
         transactions |-> transactions, previous_hash |-> previous_hash,
         proof |-> proof, host_public_key |-> pub,
         hash |-> h, host_signature |-> sign_block(h, priv)]

\* Block.to_dict
to_dict(b) ==
    [index |-> b.index, timestamp |-> b.timestamp,
     previous_hash |-> b.previous_hash, transactions |-> b.transactions,
     host_signature |-> b.host_signature,
     host_public_key |-> b.host_public_key,
     hash |-> b.hash, proof |-> b.proof]

\* ------------------------------------------------------------- Blockchain
\* what save_chain writes
chain_data(ch) == [i \in 1..Len(ch) |-> to_dict(ch[i])]

\* Blockchain.last_block
last_block(ch) == ch[Len(ch)]

\* an audit that never compares previous_hash with the predecessor's hash
RECURSIVE first_invalid_no_link(_, _)
first_invalid_no_link(ch, i) ==
    IF i > Len(ch) THEN 0
    ELSE IF ch[i].hash # calculate_hash(ch[i]) THEN i
    ELSE IF ~ verify_signature(ch[i]) THEN i
    ELSE first_invalid_no_link(ch, i + 1)

RECURSIVE first_invalid_no_signature(_, _)
first_invalid_no_signature(ch, i) ==
    IF i > Len(ch) THEN 0
    ELSE IF ch[i].hash # calculate_hash(ch[i]) THEN i
    ELSE IF ch[i].previous_hash # ch[i-1].hash THEN i
    ELSE first_invalid_no_signature(ch, i + 1)

\* the loop of Blockchain.is_valid from position i on: the first position
\* (1-based) whose block fails one of the three checks, 0 when none does
RECURSIVE first_invalid(_, _)
first_invalid(ch, i) ==
    IF i > Len(ch) THEN 0
    ELSE IF ch[i].hash # calculate_hash(ch[i]) THEN i
    ELSE IF ch[i].previous_hash # ch[i-1].hash THEN i
    ELSE IF ~ verify_signature(ch[i]) THEN i
    ELSE first_invalid(ch, i + 1)

\* Blockchain.is_valid: range(1, len(chain)) is positions 2..Len here
is_valid(ch) == first_invalid(ch, 2) = 0

\* Blockchain.create_genesis_block on an empty chain
create_genesis_block(pub, priv, t) ==
    << Block(0, t, GenesisPreviousHash, GenesisTransactions, pub, priv, 0) >>

\* ------------------------------------------------------------------- Init
\* the programs that call database.py's add_voter at the same time
Callers == {"p1", "p2"}

\* database.py's init_db on a new file: no row in voters (others counts the
\* rows whose e-mail is outside the addresses followed here), no call of
\* add_voter in progress
EmptyDb == [voters |-> {}, others |-> 0,
            calls |-> [p \in Callers |-> [pc |-> "idle"]]]

\* no second Blockchain object has been constructed
NoPeer == [chain |-> << >>, current_transactions |-> << >>]

\* init_db on a new voters.db: empty tables and the one election_state row;
\* no session has started a script run
init_db ==
    /\ voters = [e \in Emails |-> [registered |-> FALSE, has_voted |-> FALSE]]
    /\ votes = << >>
    /\ election_state = [registration_open |-> FALSE, voting_open |-> FALSE,
                         ended |-> FALSE]
    /\ sessions = [s \in SessionIds |-> "idle"]

\* Blockchain.__init__ with no file on disk: load_chain gives [], the
\* genesis block is created and saved.
Init ==
    /\ host_private_key = HostKey
    /\ host_public_key = PublicOf(HostKey)
    /\ now = 0
    /\ chain = create_genesis_block(host_public_key, host_private_key, now)
    /\ current_transactions = << >>
    /\ file = chain_data(chain)
    /\ tampers = 0
    /\ last = [op |-> "init"]
    /\ file_state = "written"
    /\ running = TRUE
    /\ init_db
    /\ peer = NoPeer
    /\ opened = {}
    /\ db = EmptyDb

\* the number of vote transactions held by the blocks from position i on
RECURSIVE mined_transactions(_, _)
mined_transactions(ch, i) ==
    IF i > Len(ch) THEN 0
    ELSE Len(ch[i].transactions) + mined_transactions(ch, i + 1)

\* new_transaction may be called again: fewer than MaxTx were queued so far
MayQueue == mined_transactions(chain, 2) + Len(current_transactions) < MaxTx

\* datetime.now() reads the clock; time passes between calls
tick ==
    /\ now < MaxTime
    /\ now' = now + 1
    /\ last' = [op |-> "tick"]
    /\ UNCHANGED << chain, current_transactions, file, host_public_key,
                    host_private_key, tampers >>
    /\ UNCHANGED << file_state, running, appvars >>
    /\ UNCHANGED << peer, opened, db >>

\* ---------------------------------------------------------------- actions
\* a new_transaction that writes into the newest block instead of the buffer
new_transaction_into_block(sender, recipient, vote) ==
    /\ MayQueue
    /\ chain' = [chain EXCEPT ![Len(chain)].transactions =
                     Append(@, Transaction(sender, recipient, vote, now))]
    /\ last' = [op |-> "new_transaction", sender |-> sender,
                ret |-> last_block(chain).index + 1]
    /\ UNCHANGED << current_transactions, file, host_public_key,
                    host_private_key, now, tampers >>
    /\ UNCHANGED << file_state, running, appvars >>
    /\ UNCHANGED << peer, opened, db >>

\* a new_transaction that inserts at the front of the buffer
new_transaction_at_front(sender, recipient, vote) ==
    /\ MayQueue
    /\ current_transactions' =
           << Transaction(sender, recipient, vote, now) >>
               \o current_transactions
    /\ last' = [op |-> "new_transaction", sender |-> sender,
                ret |-> last_block(chain).index + 1]
    /\ UNCHANGED << chain, file, host_public_key, host_private_key, now,
                    tampers >>
    /\ UNCHANGED << file_state, running, appvars >>
    /\ UNCHANGED << peer, opened, db >>

new_transaction_returns_last_index(sender, recipient, vote) ==
    /\ MayQueue
    /\ current_transactions' =
           Append(current_transactions,
                  Transaction(sender, recipient, vote, now))
    /\ last' = [op |-> "new_transaction", sender |-> sender,
                ret |-> last_block(chain).index]
    /\ UNCHANGED << chain, file, host_public_key, host_private_key, now,
                    tampers >>
    /\ UNCHANGED << file_state, running, appvars >>
    /\ UNCHANGED << peer, opened, db >>

\* Blockchain.new_transaction(sender, recipient, vote)
new_transaction(sender, recipient, vote) ==
    /\ MayQueue
    /\ current_transactions' =
           Append(current_transactions,
                  Transaction(sender, recipient, vote, now))
    /\ last' = [op |-> "new_transaction", sender |-> sender,
                ret |-> last_block(chain).index + 1]
    /\ UNCHANGED << chain, file, host_public_key, host_private_key, now,
                    tampers >>
    /\ UNCHANGED << file_state, running, appvars >>
    /\ UNCHANGED << peer, opened, db >>

\* a block linked to the hash its predecessor was linked to
new_block_object_stale_link(ch, txs, pub, priv, proof, t) ==
    Block(Len(ch), t, last_block(ch).previous_hash, txs, pub, priv, proof)

\* a block numbered one past the length of the chain
new_block_object_off_by_one(ch, txs, pub, priv, proof, t) ==
    Block(Len(ch) + 1, t, last_block(ch).hash, txs, pub, priv, proof)

\* a block that drops the oldest queued transaction
new_block_object_drop_first(ch, txs, pub, priv, proof, t) ==
    Block(Len(ch), t, last_block(ch).hash,
          IF txs = << >> THEN txs ELSE Tail(txs), pub, priv, proof)

\* the Block(...) that new_block constructs: index=len(self.chain),
\* previous_hash=self.last_block.hash, transactions=self.current_transactions
new_block_object(ch, txs, pub, priv, proof, t) ==
    Block(Len(ch), t, last_block(ch).hash, txs, pub, priv, proof)

\* a new_block that returns the last block when nothing is queued
new_block_skip_empty(proof) ==
    /\ Len(chain) < MaxChain
    /\ LET block == new_block_object(chain, current_transactions,
                                     host_public_key, host_private_key,
                                     proof, now)
       IN  IF current_transactions = << >>
           THEN /\ last' = [op |-> "new_block",
                            ret |-> last_block(chain).index]
                /\ UNCHANGED << chain, current_transactions, file, file_state >>
           ELSE /\ current_transactions' = << >>
                /\ chain' = Append(chain, block)
                /\ file' = chain_data(chain')
                /\ file_state' = "written"
                /\ last' = [op |-> "new_block", ret |-> block.index]
    /\ UNCHANGED << host_public_key, host_private_key, now, tampers >>
    /\ UNCHANGED << running, appvars >>
    /\ UNCHANGED << peer, opened, db >>

\* Blockchain.new_block(proof)
new_block(proof) ==
    /\ Len(chain) < MaxChain
    /\ LET block == new_block_object(chain, current_transactions,
                                     host_public_key, host_private_key,
                                     proof, now)
       IN  /\ current_transactions' = << >>
           /\ chain' = Append(chain, block)
           /\ file' = chain_data(chain')
           /\ file_state' = "written"
           /\ last' = [op |-> "new_block", ret |-> block.index]
    /\ UNCHANGED << host_public_key, host_private_key, now, tampers >>
    /\ UNCHANGED << running, appvars >>
    /\ UNCHANGED << peer, opened, db >>

\* Blockchain.is_valid()
call_is_valid_resetting ==
    /\ last' = [op |-> "is_valid", ret |-> is_valid(chain)]
    /\ IF is_valid(chain)
       THEN UNCHANGED << chain, current_transactions, file, file_state >>
       ELSE /\ chain' = << chain[1] >>
            /\ current_transactions' = << >>
            /\ file' = chain_data(chain')
            /\ file_state' = "written"
    /\ UNCHANGED << host_public_key, host_private_key, now, tampers >>
    /\ UNCHANGED << running, appvars >>
    /\ UNCHANGED << peer, opened, db >>

call_is_valid ==
    /\ last' = [op |-> "is_valid", ret |-> is_valid(chain)]
    /\ UNCHANGED << chain, current_transactions, file, host_public_key,
                    host_private_key, now, tampers >>
    /\ UNCHANGED << file_state, running, appvars >>
    /\ UNCHANGED << peer, opened, db >>

Next ==
    \/ \E s \in Senders, c \in Candidates : new_transaction(s, "election", c)
    \/ \E p \in Proofs : new_block(p)
    \/ call_is_valid
    \/ tick

Spec == Init /\ [][Next]_vars

\* ------------------------------------------------ out-of-band modification
\* Block objects are plain Python objects: whoever holds the chain can assign
\* to their attributes.  These steps are not operations of Blockchain; they
\* are the tampering that is_valid is there to detect.
TamperedTransactions == << Transaction("v2", "election", "B", 0) >>

set_block(i, b) ==
    /\ chain' = [chain EXCEPT ![i] = b]
    /\ UNCHANGED << current_transactions, file, host_public_key,
                    host_private_key, now >>
    /\ UNCHANGED << file_state, running, appvars >>
    /\ UNCHANGED << peer, opened, db >>

\* one more out-of-band modification
counted == tampers < MaxTamper /\ tampers' = tampers + 1

\* block.transactions = ...; stored hash and signature left as they are
tamper_transactions(i) ==
    /\ chain[i].transactions # TamperedTransactions
    /\ counted
    /\ set_block(i, [chain[i] EXCEPT !.transactions = TamperedTransactions])
    /\ last' = [op |-> "tamper_transactions", i |-> i,
                was_valid |-> is_valid(chain)]

\* block.previous_hash = h
tamper_previous_hash(i, h) ==
    /\ i > 1
    /\ chain[i].previous_hash # h
    /\ counted
    /\ set_block(i, [chain[i] EXCEPT !.previous_hash = h])
    /\ last' = [op |-> "tamper_previous_hash", i |-> i,
                was_valid |-> is_valid(chain)]

\* the holder of private key sk recomputes the stored hash of block i and
\* signs it the way verify_signature checks it (vk.verify over the hash
\* recomputed from the fields)
resign(i, sk) ==
    /\ counted
    /\ LET h == calculate_hash(chain[i])
       IN  set_block(i, [chain[i] EXCEPT !.hash = h,
                                         !.host_signature = Signature(sk, h)])
    /\ last' = [op |-> "resign", i |-> i, was_valid |-> is_valid(chain)]

\* the holder of private key sk replaces payload, embedded public key, hash
\* and signature of block i consistently
forge_block(i, sk) ==
    /\ counted
    /\ LET b == [chain[i] EXCEPT !.transactions = TamperedTransactions,
                                 !.host_public_key = PublicOf(sk)]
           h == calculate_hash(b)
       IN  set_block(i, [b EXCEPT !.hash = h,
                                  !.host_signature = Signature(sk, h)])
    /\ last' = [op |-> "forge_block", i |-> i, was_valid |-> is_valid(chain)]

Tamper ==
    \E i \in 1..Len(chain) :
        \/ tamper_transactions(i)
        \/ \E h \in {GenesisPreviousHash, chain[i].hash} :
               tamper_previous_hash(i, h)
        \/ resign(i, host_private_key)
        \/ \E sk \in PrivateKeys \ {host_private_key} : forge_block(i, sk)

\* The chain is built, then tampered with, then audited.
NextTamper ==
    \/ tampers = 0 /\ new_transaction("v1", "election", "A")
    \/ tampers = 0 /\ new_block(0)
    \/ call_is_valid
    \/ Tamper

SpecTamper == Init /\ [][NextTamper]_vars

\* ----------------------------------------------------------------- claims
IsPrefix(s, t) == Len(s) <= Len(t) /\ SubSeq(t, 1, Len(s)) = s

\* C1: right after genesis creation and right after every new_block call,
\* is_valid() returns true.
C1_ValidAfterGenesisAndMine ==
    last.op \in {"init", "new_block"} => is_valid(chain)

\* C2: once the transactions of any block, the genesis block included, have
\* been changed with its stored hash and signature left untouched, is_valid()
\* returns false.
C2_PayloadTamperDetected ==
    last.op = "tamper_transactions" => ~ is_valid(chain)

\* C3: a chain in which some non-genesis block's previous_hash differs from
\* the stored hash of the block before it is never accepted by is_valid().
C3_BrokenLinkRejected ==
    \A i \in 2..Len(chain) :
        chain[i].previous_hash # chain[i-1].hash => ~ is_valid(chain)

C3_Witness ==
    /\ last.op = "tamper_previous_hash"
    /\ last.was_valid
    /\ chain[last.i].previous_hash # chain[last.i - 1].hash
    /\ ~ is_valid(chain)

\* C4: is_valid() returns true only if every non-genesis block carries the
\* host public key the Blockchain was configured with and a signature that
\* verifies under that key.
C4_OnlyHostSignedAccepted ==
    is_valid(chain) =>
        \A i \in 2..Len(chain) :
            /\ chain[i].host_public_key = host_public_key
            /\ verify_signature(chain[i])

\* C5: the genesis block's previous_hash is the sentinel "0" and every later
\* block's previous_hash is the stored hash of the block before it.
C5_HashLinked ==
    /\ chain[1].previous_hash = GenesisPreviousHash
    /\ \A i \in 2..Len(chain) : chain[i].previous_hash = chain[i-1].hash

C5_Witness ==
    /\ Len(chain) = 3
    /\ last.op = "new_block"
    /\ chain[3].previous_hash = chain[2].hash
    /\ chain[2].hash # chain[1].hash

\* C6: the chain is never empty and the block at every position carries
\* that position as its index, counting from 0.
C6_IndexIsPosition ==
    /\ Len(chain) >= 1
    /\ \A i \in 1..Len(chain) : chain[i].index = i - 1

C6_Witness ==
    /\ Len(chain) = 3
    /\ last.op = "new_block"
    /\ last.ret = 2
    /\ chain[3].index = chain[2].index + 1

\* C7: every operation leaves the blocks already in the chain as they were:
\* the chain before a step is a prefix of the chain after it.
C7_AppendOnly == [][IsPrefix(chain, chain')]_vars

C7_Witness ==
    /\ Len(chain) = 3
    /\ last.op = "new_transaction"
    /\ Len(current_transactions) = 2

\* C8: new_block appends exactly one block, which holds the pending buffer as
\* it stood at the call, in order, and leaves the pending buffer empty.
C8_MineDrainsPending ==
    [][last'.op = "new_block" =>
          /\ Len(chain') = Len(chain) + 1
          /\ IsPrefix(chain, chain')
          /\ chain'[Len(chain')].transactions = current_transactions
          /\ current_transactions' = << >>]_vars

C8_Witness ==
    /\ last.op = "new_block"
    /\ current_transactions = << >>
    /\ Len(last_block(chain).transactions) = 2
    /\ last_block(chain).transactions[1].sender = "v1"
    /\ last_block(chain).transactions[2].sender = "v2"

\* C9 as claimed: new_block on an empty pending buffer changes neither the
\* chain nor the persisted file.
C9_EmptyMineIsNoOp ==
    [][(last'.op = "new_block" /\ current_transactions = << >>) =>
          (chain' = chain /\ file' = file)]_vars

\* C9 as amended: new_block on an empty pending buffer appends exactly one
\* block whose transactions list is empty, and rewrites the persisted file
\* to hold the extended chain.
C9_EmptyMineAppendsEmptyBlock ==
    [][(last'.op = "new_block" /\ current_transactions = << >>) =>
          /\ Len(chain') = Len(chain) + 1
          /\ IsPrefix(chain, chain')
          /\ chain'[Len(chain')].transactions = << >>
          /\ chain'[Len(chain')].index = Len(chain)
          /\ file' = chain_data(chain')
          /\ file' # file]_vars

C9_Witness ==
    /\ last.op = "new_block"
    /\ last_block(chain).transactions = << >>
    /\ Len(file) = Len(chain)
    /\ file[Len(file)].transactions = << >>

\* C10: new_transaction adds exactly one entry, the transaction it was given,
\* at the end of the pending buffer and changes neither the chain nor the
\* persisted file.
C10_QueueOnly ==
    [][last'.op = "new_transaction" =>
          /\ Len(current_transactions') = Len(current_transactions) + 1
          /\ IsPrefix(current_transactions, current_transactions')
          /\ current_transactions'[Len(current_transactions')].sender
                 = last'.sender
          /\ chain' = chain
          /\ file' = file]_vars

C10_Witness ==
    /\ last.op = "new_transaction"
    /\ Len(current_transactions) = 2
    /\ current_transactions[1].sender # current_transactions[2].sender
    /\ current_transactions[2].sender = last.sender
    /\ Len(chain) >= 2

\* ------------------------------------------------- persistence and restart
\* Block.sign_block raises ValueError, before its try block, when the key it
\* is given is falsy (None or the empty string)
sign_block_raises(private_key) == private_key = None

\* Block.from_dict: builds the block through Block.__init__ with
\* host_private_key = None, then overwrites hash and host_signature with the
\* stored ones. Block.__init__ calls sign_block, so the ValueError of a
\* missing key leaves from_dict.
from_dict(data) ==
    LET host_private_key_arg == None
    IN  IF sign_block_raises(host_private_key_arg)
        THEN [raised |-> TRUE]
        ELSE [raised |-> FALSE,
              block  |-> [Block(data.index, data.timestamp,
                                data.previous_hash, data.transactions,
                                data.host_public_key, host_private_key_arg,
                                data.proof)
                            EXCEPT !.hash = data.hash,
                                   !.host_signature = data.host_signature]]

\* Blockchain.load_chain: FileNotFoundError and JSONDecodeError give [];
\* every other exception (the ValueError of from_dict, the TypeError of
\* iterating or indexing JSON that is not a list of block records) leaves
\* the function.
load_chain(fs, data) ==
    CASE fs \in {"absent", "truncated"} -> [raised |-> FALSE, chain |-> << >>]
      [] fs = "malformed" -> [raised |-> TRUE, chain |-> << >>]
      [] fs = "written" ->
            LET blocks == [i \in 1..Len(data) |-> from_dict(data[i])]
            IN  IF \E i \in 1..Len(data) : blocks[i].raised
                THEN [raised |-> TRUE, chain |-> << >>]
                ELSE [raised |-> FALSE,
                      chain  |-> [i \in 1..Len(data) |-> blocks[i].block]]

\* Blockchain.__init__ on a file in state fs holding the records data: the
\* chain is what load_chain gives; an empty one gets a genesis block, which
\* create_genesis_block saves. raised: the constructor did not return.
construction(fs, data, pub, priv, t) ==
    LET loaded == load_chain(fs, data)
    IN  IF loaded.raised
        THEN [raised |-> TRUE, chain |-> << >>, file |-> data,
              file_state |-> fs]
        ELSE IF loaded.chain = << >>
        THEN LET genesis == create_genesis_block(pub, priv, t)
             IN  [raised |-> FALSE, chain |-> genesis,
                  file |-> chain_data(genesis), file_state |-> "written"]
        ELSE [raised |-> FALSE, chain |-> loaded.chain, file |-> data,
              file_state |-> fs]

\* the process is started again (or the script is run again) and builds its
\* Blockchain on the same file with the same keys; the former object and its
\* pending buffer are gone. When the constructor raises no object exists:
\* running is FALSE and chain is empty.
construct ==
    /\ LET c == construction(file_state, file, host_public_key,
                             host_private_key, now)
       IN  /\ chain' = c.chain
           /\ file' = c.file
           /\ file_state' = c.file_state
           /\ running' = ~c.raised
           /\ last' = [op |-> "construct", raised |-> c.raised,
                       file_was |-> file_state, stored |-> file]
    /\ current_transactions' = << >>
    /\ UNCHANGED << host_public_key, host_private_key, now, tampers, appvars >>
    /\ UNCHANGED << peer, opened, db >>

\* new_block when save_chain raises OSError. The block is built, the buffer
\* is reset and the block is appended before save_chain is called, and
\* new_block has no handler. open(filename, 'w') either raises itself (the
\* file is untouched) or truncates the file and json.dump raises part-way
\* (the file holds a prefix of the new text).
new_block_save_fails(proof, open_raises) ==
    /\ Len(chain) < MaxChain
    /\ LET block == new_block_object(chain, current_transactions,
                                     host_public_key, host_private_key,
                                     proof, now)
       IN  /\ current_transactions' = << >>
           /\ chain' = Append(chain, block)
           /\ last' = [op |-> "new_block_failed", index |-> block.index]
    /\ IF open_raises
       THEN UNCHANGED << file, file_state >>
       ELSE file' = << >> /\ file_state' = "truncated"
    /\ UNCHANGED << host_public_key, host_private_key, now, tampers,
                    running, appvars >>
    /\ UNCHANGED << peer, opened, db >>

\* the process stops (kill, power loss) while save_chain is between
\* open(filename, 'w') and the end of json.dump: the file holds a prefix of
\* the new text and nothing of the old one
new_block_killed(proof) ==
    /\ Len(chain) < MaxChain
    /\ chain' = << >>
    /\ current_transactions' = << >>
    /\ file' = << >>
    /\ file_state' = "truncated"
    /\ running' = FALSE
    /\ last' = [op |-> "killed", persisted |-> Len(file)]
    /\ UNCHANGED << host_public_key, host_private_key, now, tampers, appvars >>
    /\ UNCHANGED << peer, opened, db >>

NextRestart ==
    \/ running /\ \E c \in Candidates : new_transaction("v1", "election", c)
    \/ running /\ new_block(0)
    \/ running /\ call_is_valid
    \/ running /\ \E open_raises \in BOOLEAN : new_block_save_fails(0, open_raises)
    \/ running /\ new_block_killed(0)
    \/ construct
    \/ tick

\* one ledger file over several process lifetimes
SpecRestart == Init /\ [][NextRestart]_vars

\* the first construction finds a file it did not write: nothing, a
\* truncated text, JSON that is not a list of block records, or the list []
InitFile ==
    \E fs \in FileStates :
        LET c == construction(fs, << >>, PublicOf(HostKey), HostKey, 0)
        IN  /\ chain = c.chain
            /\ file = c.file
            /\ file_state = c.file_state
            /\ running = ~c.raised
            /\ last = [op |-> "construct", raised |-> c.raised,
                       file_was |-> fs, stored |-> << >>]
            /\ current_transactions = << >>
            /\ host_public_key = PublicOf(HostKey)
            /\ host_private_key = HostKey
            /\ now = 0
            /\ tampers = 0
            /\ init_db
            /\ peer = NoPeer
            /\ opened = {}
            /\ db = EmptyDb

SpecFile == InitFile /\ [][NextRestart]_vars

\* C11: constructing a Blockchain on a file that save_chain wrote succeeds
\* and gives a chain with the same length, the same fields in every block and
\* the same is_valid() result as the chain that was saved.
C11_RoundTrip ==
    (last.op = "construct" /\ last.file_was = "written"
         /\ Len(last.stored) >= 1)
        => /\ ~last.raised
           /\ running
           /\ Len(chain) = Len(last.stored)
           /\ chain_data(chain) = last.stored
           /\ is_valid(chain) = is_valid(last.stored)

\* C12: construction does not raise whatever the file holds; on a file that
\* is missing, truncated or not a list of block records it completes with
\* exactly one fresh genesis block.
C12_ConstructionNeverRaises ==
    (last.op = "construct"
         /\ (last.file_was \in {"absent", "truncated", "malformed"}
               \/ last.stored = << >>))
        => /\ ~last.raised
           /\ running
           /\ Len(chain) = 1
           /\ chain[1].index = 0
           /\ chain[1].previous_hash = GenesisPreviousHash

\* C13: construction on a parseable file whose chain fails is_valid() ends
\* with a running Blockchain that holds one genesis block, and no running
\* Blockchain holds a loaded chain that is_valid() rejects.
C13_InvalidFileResetsToGenesis ==
    (last.op = "construct" /\ last.file_was = "written"
         /\ Len(last.stored) >= 2 /\ ~is_valid(last.stored))
        => /\ ~last.raised
           /\ running
           /\ Len(chain) = 1
           /\ chain[1].index = 0
           /\ is_valid(chain)

\* C14: when signing the new block fails, new_block appends nothing: no
\* block whose signature is absent enters the chain through new_block.
C14_NoUnsignedBlockFromNewBlock ==
    \A i \in 2..Len(chain) : chain[i].host_signature # None

\* C15: new_block is all-or-nothing: a call that completes has the new block
\* in the in-memory chain and in the persisted file, and a call that fails,
\* the failure of the write in save_chain included, leaves the in-memory
\* chain as it was before the call.
C15_MineAllOrNothing ==
    [][/\ last'.op = "new_block" =>
              /\ Len(chain') = Len(chain) + 1
              /\ file_state' = "written"
              /\ file' = chain_data(chain')
       /\ last'.op = "new_block_failed" => chain' = chain]_vars

\* C16: at every instant the persistence file is absent or holds the
\* complete serialization of a chain that is_valid() accepts, and what it
\* held before is still there: each rewrite extends the stored blocks.
C16_FileAlwaysCompleteAndValid ==
    [][/\ file_state' = "absent"
              \/ (file_state' = "written" /\ Len(file') >= 1
                    /\ is_valid(file'))
       /\ IsPrefix(file, file')]_vars

\* ------------------------------------------------------- the voting app
MAX_VOTERS == 100

\* hashlib.sha256(s.encode()).hexdigest(): injective on its input
hash_value(s) == << "sha256", s >>

voter_hash(email) == hash_value(<< email, "securevoting" >>)

count_voters == Cardinality({e \in Emails : voters[e].registered})

\* the Blockchain that app.py constructs with no arguments is not the class
\* of blockchain.py; its add_block is the direct append: a new block linked
\* to the last one, index one higher, signed with the authority key, pushed
\* and persisted
add_block(ch, payload, pub, priv, t) ==
    Append(ch, Block(Len(ch), t, last_block(ch).hash, payload, pub, priv, 0))

set_registration(open_bool) ==
    /\ election_state' = [registration_open |-> open_bool,
                          voting_open |-> FALSE, ended |-> FALSE]
    /\ last' = [op |-> "set_registration", open |-> open_bool]
    /\ UNCHANGED << voters, votes, sessions >>

start_voting_keeps_registration ==
    /\ election_state' = [election_state EXCEPT !.voting_open = TRUE,
                                                !.ended = FALSE]
    /\ last' = [op |-> "start_voting"]
    /\ UNCHANGED << voters, votes, sessions >>

start_voting ==
    /\ election_state' = [registration_open |-> FALSE, voting_open |-> TRUE,
                          ended |-> FALSE]
    /\ last' = [op |-> "start_voting"]
    /\ UNCHANGED << voters, votes, sessions >>

end_voting ==
    /\ election_state' = [registration_open |-> FALSE, voting_open |-> FALSE,
                          ended |-> TRUE]
    /\ last' = [op |-> "end_voting"]
    /\ UNCHANGED << voters, votes, sessions >>

\* host dashboard, first column: "Close Registration" is shown while
\* registration is open, "Enable Registration" otherwise
host_registration_button ==
    /\ set_registration(~election_state.registration_open)
    /\ opened' = IF election_state'.registration_open
                 THEN opened \cup {"registration"} ELSE opened
    /\ UNCHANGED << chain, current_transactions, file, file_state, running,
                    host_public_key, host_private_key, now, tampers >>
    /\ UNCHANGED << peer, db >>

\* host dashboard, second column: "End Voting" while voting is open,
\* "Start Voting" otherwise
host_voting_button ==
    /\ IF election_state.voting_open THEN end_voting ELSE start_voting
    /\ opened' = IF election_state'.voting_open
                 THEN opened \cup {"voting"} ELSE opened
    /\ UNCHANGED << chain, current_transactions, file, file_state, running,
                    host_public_key, host_private_key, now, tampers >>
    /\ UNCHANGED << peer, db >>

\* host dashboard, "Remove Voter": the row of voters is deleted, the rows of
\* votes are kept
host_remove_voter(email) ==
    /\ voters[email].registered
    /\ voters' = [voters EXCEPT
                     ![email] = [registered |-> FALSE, has_voted |-> FALSE]]
    /\ last' = [op |-> "remove_voter", email |-> email]
    /\ UNCHANGED << votes, election_state, sessions >>
    /\ UNCHANGED << chain, current_transactions, file, file_state, running,
                    host_public_key, host_private_key, now, tampers >>
    /\ UNCHANGED << peer, opened, db >>

\* voter portal, "Register" of an adult while registration is open:
\* add_voter refuses at MAX_VOTERS rows and on an e-mail already there
\* (UNIQUE), and inserts a row with has_voted = 0 otherwise
register(email) ==
    /\ election_state.registration_open
    /\ IF count_voters >= MAX_VOTERS \/ voters[email].registered
       THEN voters' = voters
       ELSE voters' = [voters EXCEPT
                  ![email] = [registered |-> TRUE, has_voted |-> FALSE]]
    /\ last' = [op |-> "register", email |-> email,
                ok |-> ~(count_voters >= MAX_VOTERS \/ voters[email].registered)]
    /\ UNCHANGED << votes, election_state, sessions >>
    /\ UNCHANGED << chain, current_transactions, file, file_state, running,
                    host_public_key, host_private_key, now, tampers >>
    /\ UNCHANGED << peer, opened, db >>

\* voter portal, "Login to vote" while voting is open and registration is
\* not: get_voter finds the row and has_voted is 0, so the script goes on to
\* the candidates and the "Submit Vote" branch with this e-mail
login_to_vote(s, email) ==
    /\ sessions[s] = "idle"
    /\ ~election_state.registration_open
    /\ election_state.voting_open
    /\ voters[email].registered
    /\ ~voters[email].has_voted
    /\ sessions' = [sessions EXCEPT ![s] = email]
    /\ last' = [op |-> "login_to_vote", email |-> email]
    /\ UNCHANGED << voters, votes, election_state >>
    /\ UNCHANGED << chain, current_transactions, file, file_state, running,
                    host_public_key, host_private_key, now, tampers >>
    /\ UNCHANGED << peer, opened, db >>

\* UPDATE voters SET has_voted=1 WHERE email=? changes the row if there is
\* one; INSERT INTO votes adds a row, the table has no constraint
mark_voted(email, v_hash, candidate) ==
    /\ voters' = [voters EXCEPT ![email].has_voted = voters[email].registered]
    /\ votes' = Append(votes, [voter_hash |-> v_hash,
                               candidate |-> candidate, timestamp |-> now])

\* voter portal, the "Submit Vote" branch of a script run that passed the
\* has_voted test: the fingerprint goes to the ledger, then mark_voted
submit_vote(s, choice) ==
    /\ sessions[s] # "idle"
    /\ Len(votes) < MaxVotes
    /\ LET email == sessions[s]
           vote_fingerprint == hash_value(<< email, choice, now >>)
       IN  /\ chain' = add_block(chain, vote_fingerprint, host_public_key,
                                 host_private_key, now)
           /\ file' = chain_data(chain')
           /\ file_state' = "written"
           /\ mark_voted(email, voter_hash(email), choice)
           /\ last' = [op |-> "submit_vote", email |-> email]
    /\ sessions' = [sessions EXCEPT ![s] = "idle"]
    /\ UNCHANGED << election_state, current_transactions, running,
                    host_public_key, host_private_key, now, tampers >>
    /\ UNCHANGED << peer, opened, db >>

NextApp ==
    \/ host_registration_button
    \/ host_voting_button
    \/ \E e \in Emails : host_remove_voter(e)
    \/ \E e \in Emails : register(e)
    \/ \E s \in SessionIds, e \in Emails : login_to_vote(s, e)
    \/ \E s \in SessionIds, c \in Candidates : submit_vote(s, c)

SpecApp == Init /\ [][NextApp]_vars

\* the ledger entries and the rows of votes that belong to one e-mail
ledger_entries(email) ==
    {i \in 2..Len(chain) : chain[i].transactions[2][1] = email}

vote_rows(email) ==
    {i \in 1..Len(votes) : votes[i].voter_hash = voter_hash(email)}

\* C17: whatever the voter sessions and the host do, and however they
\* interleave, each e-mail has at most one row in votes and at most one
\* entry in the ledger.
C17_AtMostOneVotePerVoter ==
    \A e \in Emails :
        /\ Cardinality(vote_rows(e)) <= 1
        /\ Cardinality(ledger_entries(e)) <= 1

\* ------------------------------------------------- signature primitives
\* inputs of the signing and verifying functions: messages, public keys that
\* decode and two that do not (not hex; hex of a string that is no curve
\* point), a private key that is not hex, and signatures that are absent
\* (None) or do not decode as DER
Messages            == {"m1", "m2", "m3"}
PublicKeys          == {PublicOf(sk) : sk \in PrivateKeys}
MalformedPublicKeys == {"zz", "00"}
MalformedPrivateKey == "zz"
MalformedSignature  == << "not DER" >>
SignatureInputs ==
    {Signature(sk, hash_value(m)) : sk \in PrivateKeys, m \in Messages}
        \cup {None, MalformedSignature}

\* the exception classes the try blocks can meet; all derive from Exception
ExceptionSubclasses ==
    {"ValueError", "TypeError", "MalformedPointError", "UnexpectedDER",
     "BadSignatureError"}

\* wallet.generate_key_pair: a fresh private key and the public key derived
\* from it
generate_key_pair(sk) == << sk, PublicOf(sk) >>

\* wallet.sign_transaction: bytes.fromhex / SigningKey.from_string raise on
\* a key that does not decode and the handler returns None; otherwise the
\* DER signature of the SHA-256 digest of the data
sign_transaction(private_key, data_to_sign) ==
    IF private_key \in PrivateKeys
    THEN Signature(private_key, hash_value(data_to_sign))
    ELSE None

\* the try block of a verification: decode the public key, decode the
\* signature, verify it over the digest. exc is the exception it ends with,
\* "none" when it returns (the value of verify / verify_digest, always True)
verify_try_any_key(public_key, digest, signature) ==
    IF public_key = "zz" THEN [exc |-> "ValueError"]
    ELSE IF public_key \notin PublicKeys THEN [exc |-> "MalformedPointError"]
    ELSE IF signature = None THEN [exc |-> "TypeError"]
    ELSE IF Len(signature) # 3 THEN [exc |-> "UnexpectedDER"]
    ELSE IF signature[3] # digest
    THEN [exc |-> "BadSignatureError"]
    ELSE [exc |-> "none"]

verify_try(public_key, digest, signature) ==
    IF public_key = "zz" THEN [exc |-> "ValueError"]
    ELSE IF public_key \notin PublicKeys THEN [exc |-> "MalformedPointError"]
    ELSE IF signature = None THEN [exc |-> "TypeError"]
    ELSE IF Len(signature) # 3 THEN [exc |-> "UnexpectedDER"]
    ELSE IF PublicOf(signature[2]) # public_key \/ signature[3] # digest
    THEN [exc |-> "BadSignatureError"]
    ELSE [exc |-> "none"]

\* wallet.verify_signature: one handler, except Exception, returns False
wallet_verify_signature(public_key, data_to_verify, signature) ==
    LET t == verify_try(public_key, hash_value(data_to_verify), signature)
    IN  IF t.exc = "none" THEN [raised |-> FALSE, ret |-> TRUE]
        ELSE IF t.exc \in ExceptionSubclasses
        THEN [raised |-> FALSE, ret |-> FALSE]
        ELSE [raised |-> TRUE, ret |-> FALSE]

\* Block.verify_signature with its two handlers: except BadSignatureError
\* and except Exception both return False
block_verify_signature_one_handler(b) ==
    LET t == verify_try(b.host_public_key, calculate_hash(b),
                        b.host_signature)
    IN  IF t.exc = "none" THEN [raised |-> FALSE, ret |-> TRUE]
        ELSE IF t.exc = "BadSignatureError"
        THEN [raised |-> FALSE, ret |-> FALSE]
        ELSE [raised |-> TRUE, ret |-> FALSE]

block_verify_signature(b) ==
    LET t == verify_try(b.host_public_key, calculate_hash(b),
                        b.host_signature)
    IN  IF t.exc = "none" THEN [raised |-> FALSE, ret |-> TRUE]
        ELSE IF t.exc = "BadSignatureError"
        THEN [raised |-> FALSE, ret |-> FALSE]
        ELSE IF t.exc \in ExceptionSubclasses
        THEN [raised |-> FALSE, ret |-> FALSE]
        ELSE [raised |-> TRUE, ret |-> FALSE]

\* the blocks handed to Block.verify_signature: the second block of a chain
\* with any public key and any signature put into it
BlockInputs ==
    LET genesis == create_genesis_block(PublicOf(HostKey), HostKey, 0)[1]
        mined(key) == Block(1, 0, genesis.hash, << >>, key, HostKey, 0)
    IN  UNION {{[mined(pk) EXCEPT !.host_signature = sig] :
                   sig \in SignatureInputs
                      \cup {Signature(sk, mined(pk).hash) : sk \in PrivateKeys}} :
               pk \in PublicKeys \cup MalformedPublicKeys}

call_generate_key_pair ==
    /\ \E sk \in PrivateKeys :
          last' = [op |-> "generate_key_pair", ret |-> generate_key_pair(sk)]
    /\ UNCHANGED << chain, current_transactions, file, host_public_key,
                    host_private_key, now, tampers, file_state, running,
                    appvars >>
    /\ UNCHANGED << peer, opened, db >>

call_sign_transaction ==
    /\ \E private_key \in PrivateKeys \cup {MalformedPrivateKey},
          data \in Messages :
          last' = [op |-> "sign_transaction", private_key |-> private_key,
                   data |-> data,
                   ret |-> sign_transaction(private_key, data)]
    /\ UNCHANGED << chain, current_transactions, file, host_public_key,
                    host_private_key, now, tampers, file_state, running,
                    appvars >>
    /\ UNCHANGED << peer, opened, db >>

call_wallet_verify_signature ==
    /\ \E public_key \in PublicKeys \cup MalformedPublicKeys,
          data \in Messages, signature \in SignatureInputs :
          LET r == wallet_verify_signature(public_key, data, signature)
          IN  last' = [op |-> "wallet.verify_signature",
                       public_key |-> public_key, data |-> data,
                       signature |-> signature,
                       raised |-> r.raised, ret |-> r.ret]
    /\ UNCHANGED << chain, current_transactions, file, host_public_key,
                    host_private_key, now, tampers, file_state, running,
                    appvars >>
    /\ UNCHANGED << peer, opened, db >>

call_block_verify_signature ==
    /\ \E b \in BlockInputs :
          LET r == block_verify_signature(b)
          IN  last' = [op |-> "Block.verify_signature", block |-> b,
                       raised |-> r.raised, ret |-> r.ret]
    /\ UNCHANGED << chain, current_transactions, file, host_public_key,
                    host_private_key, now, tampers, file_state, running,
                    appvars >>
    /\ UNCHANGED << peer, opened, db >>

NextWallet ==
    \/ call_generate_key_pair
    \/ call_sign_transaction
    \/ call_wallet_verify_signature
    \/ call_block_verify_signature

\* calls of the signature primitives on every input of the sets above
SpecWallet == Init /\ [][NextWallet]_vars

\* C18: a signature that sign_transaction made with a generated private key
\* over a message verifies as true under the public key of the same pair and
\* as false under the public key of any other pair.
C18_SignThenVerify ==
    last.op = "wallet.verify_signature" =>
        \A sk \in PrivateKeys :
            (last.signature = sign_transaction(sk, last.data)
                 /\ last.public_key \in PublicKeys)
                => /\ ~last.raised
                   /\ last.ret = (generate_key_pair(sk)[2] = last.public_key)

C18_Witness ==
    /\ last.op = "wallet.verify_signature"
    /\ last.signature = sign_transaction(OtherKey, last.data)
    /\ last.public_key = generate_key_pair(HostKey)[2]
    /\ last.ret = FALSE

\* C19: neither verification function raises: for an absent or malformed
\* signature, a malformed public key and a digest mismatch both return
\* false.
C19_VerifyNeverRaises ==
    /\ last.op \in {"wallet.verify_signature", "Block.verify_signature"}
          => ~last.raised
    /\ last.op = "wallet.verify_signature" =>
          ((\/ last.signature \in {None, MalformedSignature}
            \/ last.public_key \in MalformedPublicKeys
            \/ last.signature[3] # hash_value(last.data))
               => last.ret = FALSE)
    /\ last.op = "Block.verify_signature" =>
          ((\/ last.block.host_signature \in {None, MalformedSignature}
            \/ last.block.host_public_key \in MalformedPublicKeys
            \/ last.block.host_signature[3] # calculate_hash(last.block))
               => last.ret = FALSE)

C19_Witness ==
    /\ last.op = "Block.verify_signature"
    /\ last.block.host_signature = None
    /\ last.block.host_public_key \in MalformedPublicKeys
    /\ ~last.raised
    /\ last.ret = FALSE

\* C20: is_valid() is read-only: whether it returns true or false it leaves
\* the chain with every field of every block, the pending buffer and the
\* persisted file as they were, so that a further call returns the same.
C20_IsValidReadOnly ==
    [][last'.op = "is_valid" =>
          /\ chain' = chain
          /\ current_transactions' = current_transactions
          /\ file' = file
          /\ file_state' = file_state
          /\ is_valid(chain') = last'.ret]_vars

C20_Witness ==
    /\ last.op = "is_valid"
    /\ last.ret = FALSE
    /\ tampers > 0
    /\ Len(chain) >= 2
    /\ file # chain_data(chain)

\* ---------------------------------------------------- validity, in detail
\* the three checks of is_valid on the block at position i (1-based, i > 1)
hash_matches(ch, i)      == ch[i].hash = calculate_hash(ch[i])
link_matches(ch, i)      == ch[i].previous_hash = ch[i-1].hash
signature_verifies(ch, i) == verify_signature(ch[i])

violating(ch) ==
    {i \in 2..Len(ch) : ~ (/\ hash_matches(ch, i)
                           /\ link_matches(ch, i)
                           /\ signature_verifies(ch, i))}

\* C21: is_valid() returns true exactly when every block after the genesis
\* block has a stored hash equal to its recomputed hash, a previous_hash
\* equal to the stored hash of the block before it and a signature that
\* verifies; otherwise the loop stops at the lowest position that fails.
C21_IsValidIffAllChecksPass ==
    /\ last.op = "is_valid" => (last.ret = (violating(chain) = {}))
    /\ violating(chain) = {} => first_invalid(chain, 2) = 0
    /\ violating(chain) # {} =>
          /\ first_invalid(chain, 2) \in violating(chain)
          /\ \A j \in violating(chain) : first_invalid(chain, 2) <= j

C21_Witness ==
    /\ last.op = "is_valid"
    /\ last.ret = TRUE
    /\ Len(chain) >= 2
    /\ tampers > 0

\* ------------------------------------------- one block, changed in place
\* a block as Block.__init__ is meant to leave it: the signature over its
\* hash made with the host private key
signed_block(index, timestamp, previous_hash, transactions, proof) ==
    LET b == Block(index, timestamp, previous_hash, transactions,
                   PublicOf(HostKey), HostKey, proof)
    IN  [b EXCEPT !.host_signature = Signature(HostKey, b.hash)]

SignedBlocks ==
    {signed_block(i, 0, GenesisPreviousHash, txs, 0) :
         i \in {1, 2}, txs \in {<< >>, << Transaction("v1", "election", "A", 0) >>}}

\* the blocks that differ from b in one of the six hashed attributes
one_field_changed(b) ==
    {[b EXCEPT !.index = b.index + 1],
     [b EXCEPT !.timestamp = b.timestamp + 1],
     [b EXCEPT !.transactions = TamperedTransactions],
     [b EXCEPT !.previous_hash = << "sha256", "elsewhere" >>],
     [b EXCEPT !.proof = b.proof + 1],
     [b EXCEPT !.host_public_key = PublicOf(OtherKey)]} \ {b}

\* a signed block is taken for inspection
take_signed_block ==
    /\ tampers = 0
    /\ \E b \in SignedBlocks :
          last' = [op |-> "signed_block", original |-> b, block |-> b,
                   host_resigned |-> FALSE, ret |-> verify_signature(b)]
    /\ UNCHANGED << chain, current_transactions, file, host_public_key,
                    host_private_key, now, tampers, file_state, running,
                    appvars >>
    /\ UNCHANGED << peer, opened, db >>

\* block.<attribute> = ..., with block.hash left stale or set to
\* block.calculate_hash(); then block.verify_signature()
change_field(rewrite_hash) ==
    /\ last.op \in {"signed_block", "change_field", "re_sign"}
    /\ counted
    /\ \E changed \in one_field_changed(last.block) :
          LET b == IF rewrite_hash
                   THEN [changed EXCEPT !.hash = calculate_hash(changed)]
                   ELSE changed
          IN  last' = [op |-> "change_field", original |-> last.original,
                       block |-> b, host_resigned |-> last.host_resigned,
                       ret |-> verify_signature(b)]
    /\ UNCHANGED << chain, current_transactions, file, host_public_key,
                    host_private_key, now, file_state, running, appvars >>
    /\ UNCHANGED << peer, opened, db >>

\* the holder of private key sk recomputes the hash and signs it; then
\* block.verify_signature()
re_sign(sk) ==
    /\ last.op \in {"signed_block", "change_field", "re_sign"}
    /\ counted
    /\ LET h == calculate_hash(last.block)
           b == [last.block EXCEPT !.hash = h,
                                   !.host_signature = Signature(sk, h)]
       IN  last' = [op |-> "re_sign", original |-> last.original,
                    block |-> b,
                    host_resigned |-> (last.host_resigned \/ sk = HostKey),
                    ret |-> verify_signature(b)]
    /\ UNCHANGED << chain, current_transactions, file, host_public_key,
                    host_private_key, now, file_state, running, appvars >>
    /\ UNCHANGED << peer, opened, db >>

NextBlock ==
    \/ take_signed_block
    \/ \E rewrite_hash \in BOOLEAN : change_field(rewrite_hash)
    \/ \E sk \in PrivateKeys : re_sign(sk)

SpecBlock == Init /\ [][NextBlock]_vars

\* C22: a signed block in which a hashed attribute was changed no longer
\* verifies, whether its stored hash is stale or rewritten, unless its
\* signature was made again with the host private key.
C22_ChangedBlockFailsVerification ==
    (/\ last.op \in {"change_field", "re_sign"}
     /\ calculate_hash(last.block) # calculate_hash(last.original)
     /\ ~last.host_resigned)
        => last.ret = FALSE

\* the part of C22 in which the signature is left as it was
C22_SignatureKept ==
    (/\ last.op \in {"change_field", "re_sign"}
     /\ calculate_hash(last.block) # calculate_hash(last.original)
     /\ last.block.host_signature = last.original.host_signature)
        => last.ret = FALSE

\* ------------------------------------- two Blockchain objects, one file
\* Two processes (two script runs) construct their Blockchain at nearly the
\* same time on a file that does not exist yet: both load_chain calls give
\* [], both create a genesis block and both save it; the file holds what the
\* later save wrote. (A Blockchain constructed once the file holds a record
\* raises, see from_dict.)
InitShared ==
    /\ host_private_key = HostKey
    /\ host_public_key = PublicOf(HostKey)
    /\ \E t \in 0..MaxTime :
          /\ now = t
          /\ chain = create_genesis_block(host_public_key, host_private_key, 0)
          /\ peer = [chain |-> create_genesis_block(host_public_key,
                                                    host_private_key, t),
                     current_transactions |-> << >>]
          /\ file = chain_data(peer.chain)
    /\ current_transactions = << >>
    /\ tampers = 0
    /\ last = [op |-> "init"]
    /\ file_state = "written"
    /\ running = TRUE
    /\ init_db
    /\ opened = {}
    /\ db = EmptyDb

\* new_transaction on the second object
peer_new_transaction(sender, recipient, vote) ==
    /\ MayQueue
    /\ Len(peer.current_transactions) < MaxTx
    /\ peer' = [peer EXCEPT !.current_transactions =
                   Append(@, Transaction(sender, recipient, vote, now))]
    /\ last' = [op |-> "peer.new_transaction", sender |-> sender,
                ret |-> last_block(peer.chain).index + 1]
    /\ UNCHANGED << chain, current_transactions, file, file_state,
                    host_public_key, host_private_key, now, tampers,
                    running, appvars, opened, db >>

\* new_block on the second object: its own chain grows and save_chain
\* rewrites the shared file from it
peer_new_block(proof) ==
    /\ Len(peer.chain) < MaxChain
    /\ LET block == new_block_object(peer.chain, peer.current_transactions,
                                     host_public_key, host_private_key,
                                     proof, now)
       IN  /\ peer' = [chain |-> Append(peer.chain, block),
                       current_transactions |-> << >>]
           /\ file' = chain_data(peer'.chain)
           /\ file_state' = "written"
           /\ last' = [op |-> "peer.new_block", ret |-> block.index]
    /\ UNCHANGED << chain, current_transactions, host_public_key,
                    host_private_key, now, tampers, running, appvars,
                    opened, db >>

NextShared ==
    \/ \E c \in Candidates : new_transaction("v1", "election", c)
    \/ new_block(0)
    \/ \E c \in Candidates : peer_new_transaction("v2", "election", c)
    \/ peer_new_block(0)
    \/ tick

SpecShared == InitShared /\ [][NextShared]_vars

\* the block records of the file
persisted == {file[i] : i \in 1..Len(file)}

\* C23: two Blockchain objects on one file never mine two blocks with the
\* same index and the same previous_hash, and every block that either of
\* them mined is in the persisted chain.
C23_NoConflictingTail ==
    /\ \A i \in 2..Len(chain), j \in 2..Len(peer.chain) :
          ~ (/\ chain[i].index = peer.chain[j].index
             /\ chain[i].previous_hash = peer.chain[j].previous_hash)
    /\ \A i \in 2..Len(chain) : to_dict(chain[i]) \in persisted
    /\ \A j \in 2..Len(peer.chain) : to_dict(peer.chain[j]) \in persisted

\* ------------------------------------------------------ election phases
\* C24: voting is open only if registration was opened earlier, the
\* election is ended only after voting was open, and once it is ended
\* neither registration nor voting is opened again.
C24_ControlledFlow ==
    [][/\ election_state'.voting_open => "registration" \in opened'
       /\ election_state'.ended => "voting" \in opened'
       /\ election_state.ended =>
             /\ ~election_state'.registration_open
             /\ ~election_state'.voting_open]_vars

\* database.py's set_registration, start_voting and end_voting called in any
\* order, as a caller other than the dashboard may do
call_phase_function ==
    /\ \/ \E open_bool \in BOOLEAN : set_registration(open_bool)
       \/ start_voting
       \/ end_voting
    /\ opened' = opened
                   \cup (IF election_state'.registration_open
                         THEN {"registration"} ELSE {})
                   \cup (IF election_state'.voting_open
                         THEN {"voting"} ELSE {})
    /\ UNCHANGED << chain, current_transactions, file, file_state, running,
                    host_public_key, host_private_key, now, tampers, peer,
                    db >>

NextElection ==
    \/ NextApp
    \/ call_phase_function

SpecElection == Init /\ [][NextElection]_vars

\* C25: at most one of registration_open, voting_open and ended is true; in
\* particular registration is closed whenever voting is open.
C25_OnePhaseAtATime ==
    /\ Cardinality({f \in {"registration_open", "voting_open", "ended"} :
                       election_state[f]}) <= 1
    /\ election_state.voting_open => ~election_state.registration_open

C25_Witness ==
    /\ last.op = "start_voting"
    /\ election_state.voting_open
    /\ "registration" \in opened
    /\ \E e \in Emails : voters[e].registered

\* ------------------------------------------------- database.py: voters
\* the e-mail, name and date-of-birth texts handed to add_voter
RawEmails == {"ann@x.org", " Ann@X.org ", "bob@x.org"}
Names     == {"ann lee", "Ann Lee"}
Dobs      == {"2000-01-01", "1990-12-31"}

\* email.strip().lower()
normalize(email) == IF email = " Ann@X.org " THEN "ann@x.org" ELSE email

\* SQL lower() of a name without surplus blanks
lower_name(full_name) == IF full_name = "Ann Lee" THEN "ann lee" ELSE full_name

\* SELECT COUNT(*) FROM voters
db_count_voters == db.others + Cardinality(db.voters)

\* the voters table holds MAX_VOTERS - 2 or MAX_VOTERS - 1 rows of other
\* people, registered earlier through add_voter
InitDb ==
    /\ host_private_key = HostKey
    /\ host_public_key = PublicOf(HostKey)
    /\ now = 0
    /\ chain = create_genesis_block(host_public_key, host_private_key, now)
    /\ current_transactions = << >>
    /\ file = chain_data(chain)
    /\ tampers = 0
    /\ last = [op |-> "init"]
    /\ file_state = "written"
    /\ running = TRUE
    /\ init_db
    /\ peer = NoPeer
    /\ opened = {}
    /\ \E n \in {MAX_VOTERS - 2, MAX_VOTERS - 1} :
          db = [EmptyDb EXCEPT !.others = n]

\* what every step of database.py leaves alone
db_frame ==
    UNCHANGED << chain, current_transactions, file, file_state, running,
                 host_public_key, host_private_key, now, tampers, appvars,
                 peer, opened >>

\* add_voter, first statement: count_voters() on a connection of its own;
\* at the limit the call returns (False, "Voter limit reached (100).")
add_voter_count(p, full_name, dob, email) ==
    /\ db.calls[p].pc = "idle"
    /\ IF db_count_voters >= MAX_VOTERS
       THEN /\ db' = db
            /\ last' = [op |-> "add_voter", caller |-> p, email |-> email,
                        ok |-> FALSE, message |-> "Voter limit reached (100)."]
       ELSE /\ db' = [db EXCEPT !.calls[p] =
                         [pc |-> "counted", full_name |-> full_name,
                          dob |-> dob, email |-> email]]
            /\ last' = [op |-> "count_voters", caller |-> p]
    /\ db_frame

add_voter_insert_no_constraint(p) ==
    /\ db.calls[p].pc = "counted"
    /\ LET call == db.calls[p]
           email == normalize(call.email)
           strict_duplicate ==
               \E r \in db.voters :
                   /\ lower_name(r.full_name) = lower_name(call.full_name)
                   /\ r.dob = call.dob
                   /\ normalize(r.email) = email
           integrity_error == FALSE
           row == [full_name |-> call.full_name, dob |-> call.dob,
                   email |-> email]
       IN  IF strict_duplicate
           THEN /\ db' = [db EXCEPT !.calls[p] = [pc |-> "idle"]]
                /\ last' = [op |-> "add_voter", caller |-> p,
                            email |-> call.email, ok |-> FALSE,
                            message |-> "Duplicate registration (same name + DOB + email)."]
           ELSE IF integrity_error
           THEN /\ db' = [db EXCEPT !.calls[p] = [pc |-> "idle"]]
                /\ last' = [op |-> "add_voter", caller |-> p,
                            email |-> call.email, ok |-> FALSE,
                            message |-> "Email already registered."]
           ELSE /\ db' = [db EXCEPT !.calls[p] = [pc |-> "idle"],
                                    !.voters = @ \cup {row}]
                /\ last' = [op |-> "add_voter", caller |-> p,
                            email |-> call.email, ok |-> TRUE,
                            message |-> "Registered (pending email verification)."]
    /\ db_frame

\* add_voter, the rest: the SELECT for the same name, date of birth and
\* e-mail, then the INSERT of the normalized e-mail, which the UNIQUE
\* constraint of the email column rejects with IntegrityError
add_voter_insert(p) ==
    /\ db.calls[p].pc = "counted"
    /\ LET call == db.calls[p]
           email == normalize(call.email)
           strict_duplicate ==
               \E r \in db.voters :
                   /\ lower_name(r.full_name) = lower_name(call.full_name)
                   /\ r.dob = call.dob
                   /\ normalize(r.email) = email
           integrity_error == \E r \in db.voters : r.email = email
           row == [full_name |-> call.full_name, dob |-> call.dob,
                   email |-> email]
       IN  IF strict_duplicate
           THEN /\ db' = [db EXCEPT !.calls[p] = [pc |-> "idle"]]
                /\ last' = [op |-> "add_voter", caller |-> p,
                            email |-> call.email, ok |-> FALSE,
                            message |-> "Duplicate registration (same name + DOB + email)."]
           ELSE IF integrity_error
           THEN /\ db' = [db EXCEPT !.calls[p] = [pc |-> "idle"]]
                /\ last' = [op |-> "add_voter", caller |-> p,
                            email |-> call.email, ok |-> FALSE,
                            message |-> "Email already registered."]
           ELSE /\ db' = [db EXCEPT !.calls[p] = [pc |-> "idle"],
                                    !.voters = @ \cup {row}]
                /\ last' = [op |-> "add_voter", caller |-> p,
                            email |-> call.email, ok |-> TRUE,
                            message |-> "Registered (pending email verification)."]
    /\ db_frame

\* remove_voter(voter_id): DELETE of the row with that id
remove_voter(row) ==
    /\ row \in db.voters
    /\ db' = [db EXCEPT !.voters = @ \ {row}]
    /\ last' = [op |-> "remove_voter", email |-> row.email]
    /\ db_frame

\* remove_voter of one of the other people's rows; at most two are removed
remove_other_voter ==
    /\ db.others > MAX_VOTERS - 2
    /\ db' = [db EXCEPT !.others = @ - 1]
    /\ last' = [op |-> "remove_voter", email |-> "other"]
    /\ db_frame

NextDb ==
    \/ \E p \in Callers, n \in Names, d \in Dobs, e \in RawEmails :
           add_voter_count(p, n, d, e)
    \/ \E p \in Callers : add_voter_insert(p)
    \/ \E row \in db.voters : remove_voter(row)
    \/ remove_other_voter

SpecDb == InitDb /\ [][NextDb]_vars

\* C26: the voters table never holds more than MAX_VOTERS rows, and an
\* add_voter call made when the limit is reached returns (False, ...) and
\* inserts nothing.
C26_VoterLimit ==
    [][/\ db_count_voters' <= MAX_VOTERS
       /\ (/\ last'.op = "add_voter"
           /\ db.calls[last'.caller].pc = "idle"
           /\ db_count_voters >= MAX_VOTERS)
             => /\ ~last'.ok
                /\ db'.voters = db.voters]_vars

\* C27: no two rows of voters have the same normalized e-mail, and an
\* add_voter call with an e-mail whose normalized form is registered returns
\* (False, message) and leaves the table as it was, whatever the name and
\* the date of birth.
C27_UniqueNormalizedEmail ==
    [][/\ \A r1, r2 \in db'.voters :
              normalize(r1.email) = normalize(r2.email) => r1 = r2
       /\ (/\ last'.op = "add_voter"
           /\ \E r \in db.voters :
                  normalize(r.email) = normalize(last'.email))
             => /\ ~last'.ok
                /\ db'.voters = db.voters]_vars

C27_Witness ==
    /\ last.op = "add_voter"
    /\ last.email = " Ann@X.org "
    /\ last.message = "Email already registered."
    /\ \E r \in db.voters : r.email = "ann@x.org"

\* C28: new_transaction returns the index of the block that will hold the
\* transaction: the value is the index of the next block to be mined, no
\* other call changes that index, and the next new_block puts every pending
\* transaction into a block with that index and returns it.
C28_ReturnedIndexIsHoldingBlock ==
    [][/\ last'.op = "new_transaction" =>
              /\ last'.ret = Len(chain)
              /\ Len(chain') = Len(chain)
       /\ last'.op \in {"is_valid", "tick"} => Len(chain') = Len(chain)
       /\ last'.op = "new_block" =>
              /\ last'.ret = Len(chain)
              /\ last_block(chain').index = last'.ret
              /\ last_block(chain').transactions = current_transactions]_vars

C28_Witness ==
    /\ last.op = "new_block"
    /\ last.ret = 2
    /\ last_block(chain).index = 2
    /\ Len(last_block(chain).transactions) = 2

====
